---- MODULE Spec2Model ----
(***************************************************************************)
(* Model of pkg/ctl/create/iamserviceaccount.go: the command                *)
(* "create iamserviceaccount".  An invocation r parses its flags and then   *)
(* runs doCreateIAMServiceAccount, one action per call of that function.    *)
(* The collaborators (loader, cluster provider, OIDC manager, printer,      *)
(* irsa) are outside the file: each call draws its outcome with \E.         *)
(* The service account filter (pkg/ctl/cmdutils/filter) is outside the file *)
(* too; its decision function follows section 4.1 of the specification.     *)
(***************************************************************************)
EXTENDS Integers, Sequences, FiniteSets, TLC

\* ------------------------------------------------------------------ bounds
\* longest list of declared service accounts of an invocation
MaxLen == 2
\* longest list of declared service accounts when two invocations run
PairMaxLen == 1

\* ---------------------------------------------------------------- universes
Runs == {1, 2}

\* a service account is identified by (namespace, name): the accounts the
\* scenarios of the specification use, plus one that shares its namespace
\* with the first and its name with the second
Accounts ==
    { [namespace |-> "default", name |-> "a"],
      [namespace |-> "kube-system", name |-> "b"],
      [namespace |-> "default", name |-> "b"] }

\* values of --oidc-thumbprint; "" is the flag's default
Thumbprints == {"", "t1", "t2"}

RECURSIVE SeqsUpTo(_, _)
\* the sequences over S of length <= n without repetition: (namespace, name)
\* is unique within a batch
SeqsUpTo(S, n) ==
    IF n = 0 THEN { <<>> }
    ELSE LET shorter == SeqsUpTo(S, n - 1)
             ext == { p \in shorter \X S :
                        /\ Len(p[1]) = n - 1
                        /\ \A i \in 1..Len(p[1]) : p[1][i] # p[2] }
         IN  shorter \cup { Append(p[1], p[2]) : p \in ext }

\* the error values a run can return; "nil" is success
Errors ==
    { "LoadError", "ProviderError", "CanOperateError", "ClientSetError",
      "OIDCManagerError", "CheckProviderError", "PreconditionError",
      "StateQueryError", "LogObjError", "ProvisioningError" }

\* the warnings doCreateIAMServiceAccount logs
WarnNoProvider == "no IAM OIDC provider associated with cluster"
WarnRoleOnly == "serviceaccounts in Kubernetes will not be created or modified"
WarnNoEffect == "passing --override-existing-serviceaccounts has no effect"
WarnOverride == "metadata of serviceaccounts that exist will be updated"
WarnDefault == "serviceaccounts that exist in Kubernetes will be excluded"

ModeWarnings == { WarnRoleOnly, WarnOverride, WarnDefault }

VARIABLES
    pc,                 \* pc[r]: the call invocation r is about to make
    oIDCThumbprint,     \* the package-level variable bound to --oidc-thumbprint
    cluster,            \* the accounts that exist in the live cluster
    flagThumbprint,     \* flagThumbprint[r]: --oidc-thumbprint of invocation r
    overrideExistingServiceAccounts,  \* --override-existing-serviceaccounts
    roleOnly,           \* --role-only
    serviceAccounts,    \* cfg.IAM.ServiceAccounts: the declared accounts
    cfgOIDCThumbprint,  \* cfg.IAM.OIDCThumbprint: "nil" or "&oIDCThumbprint"
    providerExists,     \* CheckProviderExists's answer: "unset", "true", "false"
    saFilter,           \* the filter: the existing accounts it read, its policy
    filteredServiceAccounts,  \* the result of FilterMatching
    warnings,           \* the warnings logged, in order
    stateQueries,       \* calls of SetExcludeExistingFilter
    provisionCalls,     \* calls of irsa CreateIAMServiceAccount
    delegated,          \* the list handed to irsa CreateIAMServiceAccount
    abortedAt,          \* the call at which the run returned early, or "none"
    result,             \* "none" while running, then "nil" or an error
    failed,             \* the calls whose collaborator reported a failure
    callerCancelled     \* the caller's cancellation signal has fired

inputs == << cluster, flagThumbprint, overrideExistingServiceAccounts,
             roleOnly, serviceAccounts, callerCancelled >>

vars == << pc, oIDCThumbprint, cluster, flagThumbprint,
           overrideExistingServiceAccounts, roleOnly, serviceAccounts,
           cfgOIDCThumbprint, providerExists, saFilter,
           filteredServiceAccounts, warnings, stateQueries, provisionCalls,
           delegated, abortedAt, result, failed, callerCancelled >>

\* ------------------------------------------------------- the filter (4.1)
\* filter.NewIAMServiceAccountFilter(): nothing read, nothing excluded
NewIAMServiceAccountFilter == [existing |-> {}, override |-> FALSE]

\* one account passes unless it exists and existing accounts are not overridden
Match(f, sa) == (sa \notin f.existing) \/ f.override

RECURSIVE FilterMatching(_, _)
\* saFilter.FilterMatching(serviceAccounts): walks the list front to back and
\* keeps the accounts that pass
FilterMatching(f, sas) ==
    IF sas = <<>> THEN <<>>
    ELSE LET rest == FilterMatching(f, Tail(sas))
         IN  IF Match(f, Head(sas)) THEN << Head(sas) >> \o rest ELSE rest

\* ------------------------------------------------------------------ steps
\* return err from doCreateIAMServiceAccount at call `at`
ReturnEarly(r, at, err) ==
    /\ pc' = [pc EXCEPT ![r] = "returned"]
    /\ abortedAt' = [abortedAt EXCEPT ![r] = at]
    /\ result' = [result EXCEPT ![r] = err]

Goto(r, next) ==
    /\ pc' = [pc EXCEPT ![r] = next]
    /\ UNCHANGED << abortedAt, result >>

\* the record of the collaborators' answers: call s of run r answered ok, or
\* reported a failure (an error, a cluster that is not operable, a provider
\* that is absent)
Reported(r, s, ok) ==
    IF ok THEN failed ELSE [failed EXCEPT ![r] = @ \cup {s}]

\* cobra parses the command line before RunE: --oidc-thumbprint is bound to
\* the package-level variable, the other flags to variables of the command
ParseFlags(r) ==
    /\ pc[r] = "ParseFlags"
    /\ oIDCThumbprint' =
          IF flagThumbprint[r] # "" THEN flagThumbprint[r] ELSE oIDCThumbprint
    /\ Goto(r, "Load")
    /\ UNCHANGED << inputs, failed, cfgOIDCThumbprint, providerExists, saFilter,
                    filteredServiceAccounts, warnings, stateQueries,
                    provisionCalls, delegated >>

\* Load with its error left unchecked
Load_IgnoresError(r) ==
    /\ pc[r] = "Load"
    /\ \E ok \in BOOLEAN :
          /\ failed' = Reported(r, "Load", ok)
          /\ Goto(r, "SetThumbprint")
    /\ UNCHANGED << inputs, oIDCThumbprint, cfgOIDCThumbprint, providerExists,
                    saFilter, filteredServiceAccounts, warnings, stateQueries,
                    provisionCalls, delegated >>

\* NewCreateIAMServiceAccountLoader(cmd, saFilter).Load()
Load(r) ==
    /\ pc[r] = "Load"
    /\ \E ok \in BOOLEAN :
          /\ failed' = Reported(r, "Load", ok)
          /\ IF ok THEN Goto(r, "SetThumbprint")
             ELSE ReturnEarly(r, "Load", "LoadError")
    /\ UNCHANGED << inputs, oIDCThumbprint, cfgOIDCThumbprint, providerExists,
                    saFilter, filteredServiceAccounts, warnings, stateQueries,
                    provisionCalls, delegated >>

\* if oIDCThumbprint != "" { cfg.IAM.OIDCThumbprint = &oIDCThumbprint }
SetThumbprint(r) ==
    /\ pc[r] = "SetThumbprint"
    /\ cfgOIDCThumbprint' =
          IF oIDCThumbprint # ""
          THEN [cfgOIDCThumbprint EXCEPT ![r] = "&oIDCThumbprint"]
          ELSE cfgOIDCThumbprint
    /\ Goto(r, "NewProviderForExistingCluster")
    /\ UNCHANGED << inputs, failed, oIDCThumbprint, providerExists, saFilter,
                    filteredServiceAccounts, warnings, stateQueries,
                    provisionCalls, delegated >>

\* NewProviderForExistingCluster retried from the load for as long as it
\* fails
NewProviderForExistingCluster_Retries(r) ==
    /\ pc[r] = "NewProviderForExistingCluster"
    /\ \E ok \in BOOLEAN :
          /\ failed' = Reported(r, "NewProviderForExistingCluster", ok)
          /\ IF ok THEN Goto(r, "CanOperate")
             ELSE Goto(r, "Load")
    /\ UNCHANGED << inputs, oIDCThumbprint, cfgOIDCThumbprint, providerExists,
                    saFilter, filteredServiceAccounts, warnings, stateQueries,
                    provisionCalls, delegated >>

\* ctl, err := cmd.NewProviderForExistingCluster(ctx)
NewProviderForExistingCluster(r) ==
    /\ pc[r] = "NewProviderForExistingCluster"
    /\ \E ok \in BOOLEAN :
          /\ failed' = Reported(r, "NewProviderForExistingCluster", ok)
          /\ IF ok THEN Goto(r, "CanOperate")
             ELSE ReturnEarly(r, "NewProviderForExistingCluster", "ProviderError")
    /\ UNCHANGED << inputs, oIDCThumbprint, cfgOIDCThumbprint, providerExists,
                    saFilter, filteredServiceAccounts, warnings, stateQueries,
                    provisionCalls, delegated >>

\* if ok, err := ctl.CanOperate(cfg); !ok { return err }
\* the run returns whatever err is when ok is false, and ignores err otherwise
CanOperate(r) ==
    /\ pc[r] = "CanOperate"
    /\ \E ok \in BOOLEAN, err \in {"nil", "CanOperateError"} :
          /\ failed' = Reported(r, "CanOperate", ok)
          /\ IF ~ok THEN ReturnEarly(r, "CanOperate", err)
             ELSE Goto(r, "NewStdClientSet")
    /\ UNCHANGED << inputs, oIDCThumbprint, cfgOIDCThumbprint, providerExists,
                    saFilter, filteredServiceAccounts, warnings, stateQueries,
                    provisionCalls, delegated >>

\* clientSet, err := ctl.NewStdClientSet(cfg)
NewStdClientSet(r) ==
    /\ pc[r] = "NewStdClientSet"
    /\ \E ok \in BOOLEAN :
          /\ failed' = Reported(r, "NewStdClientSet", ok)
          /\ IF ok THEN Goto(r, "NewOpenIDConnectManager")
             ELSE ReturnEarly(r, "NewStdClientSet", "ClientSetError")
    /\ UNCHANGED << inputs, oIDCThumbprint, cfgOIDCThumbprint, providerExists,
                    saFilter, filteredServiceAccounts, warnings, stateQueries,
                    provisionCalls, delegated >>

\* oidc, err := ctl.NewOpenIDConnectManager(ctx, cfg)
NewOpenIDConnectManager(r) ==
    /\ pc[r] = "NewOpenIDConnectManager"
    /\ \E ok \in BOOLEAN :
          /\ failed' = Reported(r, "NewOpenIDConnectManager", ok)
          /\ IF ok THEN Goto(r, "CheckProviderExists")
             ELSE ReturnEarly(r, "NewOpenIDConnectManager", "OIDCManagerError")
    /\ UNCHANGED << inputs, oIDCThumbprint, cfgOIDCThumbprint, providerExists,
                    saFilter, filteredServiceAccounts, warnings, stateQueries,
                    provisionCalls, delegated >>

\* CheckProviderExists with the gate's return left out: an absent provider is
\* only warned about
CheckProviderExists_WarnOnly(r) ==
    /\ pc[r] = "CheckProviderExists"
    /\ \E exists \in BOOLEAN, err \in {"nil", "CheckProviderError"} :
          /\ providerExists' =
                [providerExists EXCEPT
                    ![r] = IF exists THEN "true" ELSE "false"]
          /\ failed' =
                Reported(r, "CheckProviderExists", err = "nil" /\ exists)
          /\ IF err # "nil"
             THEN /\ ReturnEarly(r, "CheckProviderExists", err)
                  /\ UNCHANGED warnings
             ELSE /\ warnings' =
                        [warnings EXCEPT
                            ![r] = IF exists THEN @
                                   ELSE Append(@, WarnNoProvider)]
                  /\ Goto(r, "SetExcludeExistingFilter")
    /\ UNCHANGED << inputs, oIDCThumbprint, cfgOIDCThumbprint, saFilter,
                    filteredServiceAccounts, stateQueries, provisionCalls,
                    delegated >>

\* CheckProviderExists with the gate's condition inverted
CheckProviderExists_Inverted(r) ==
    /\ pc[r] = "CheckProviderExists"
    /\ \E exists \in BOOLEAN, err \in {"nil", "CheckProviderError"} :
          /\ providerExists' =
                [providerExists EXCEPT
                    ![r] = IF exists THEN "true" ELSE "false"]
          /\ failed' =
                Reported(r, "CheckProviderExists", err = "nil" /\ exists)
          /\ IF err # "nil"
             THEN /\ ReturnEarly(r, "CheckProviderExists", err)
                  /\ UNCHANGED warnings
             ELSE IF exists
             THEN /\ warnings' =
                        [warnings EXCEPT ![r] = Append(@, WarnNoProvider)]
                  /\ ReturnEarly(r, "CheckProviderExists", "PreconditionError")
             ELSE /\ Goto(r, "SetExcludeExistingFilter")
                  /\ UNCHANGED warnings
    /\ UNCHANGED << inputs, oIDCThumbprint, cfgOIDCThumbprint, saFilter,
                    filteredServiceAccounts, stateQueries, provisionCalls,
                    delegated >>

\* providerExists, err := oidc.CheckProviderExists(ctx), and the gate on it
CheckProviderExists(r) ==
    /\ pc[r] = "CheckProviderExists"
    /\ \E exists \in BOOLEAN, err \in {"nil", "CheckProviderError"} :
          /\ providerExists' =
                [providerExists EXCEPT
                    ![r] = IF exists THEN "true" ELSE "false"]
          /\ failed' =
                Reported(r, "CheckProviderExists", err = "nil" /\ exists)
          /\ IF err # "nil"
             THEN /\ ReturnEarly(r, "CheckProviderExists", err)
                  /\ UNCHANGED warnings
             ELSE IF ~exists
             THEN /\ warnings' =
                        [warnings EXCEPT ![r] = Append(@, WarnNoProvider)]
                  /\ ReturnEarly(r, "CheckProviderExists", "PreconditionError")
             ELSE /\ Goto(r, "SetExcludeExistingFilter")
                  /\ UNCHANGED warnings
    /\ UNCHANGED << inputs, oIDCThumbprint, cfgOIDCThumbprint, saFilter,
                    filteredServiceAccounts, stateQueries, provisionCalls,
                    delegated >>

\* SetExcludeExistingFilter handed roleOnly where the override flag belongs
\* (both are bool parameters of doCreateIAMServiceAccount)
SetExcludeExistingFilter_SwapFlags(r) ==
    /\ pc[r] = "SetExcludeExistingFilter"
    /\ stateQueries' = [stateQueries EXCEPT ![r] = @ + 1]
    /\ \E ok \in BOOLEAN :
          /\ failed' = Reported(r, "SetExcludeExistingFilter", ok)
          /\ IF ok
             THEN /\ saFilter' =
                        [saFilter EXCEPT ![r] =
                            [existing |-> cluster, override |-> roleOnly[r]]]
                  /\ Goto(r, "FilterMatching")
             ELSE /\ ReturnEarly(r, "SetExcludeExistingFilter", "StateQueryError")
                  /\ UNCHANGED saFilter
    /\ UNCHANGED << inputs, oIDCThumbprint, cfgOIDCThumbprint, providerExists,
                    filteredServiceAccounts, warnings, provisionCalls,
                    delegated >>

\* SetExcludeExistingFilter handed a constant false for the override flag
SetExcludeExistingFilter_NoOverride(r) ==
    /\ pc[r] = "SetExcludeExistingFilter"
    /\ stateQueries' = [stateQueries EXCEPT ![r] = @ + 1]
    /\ \E ok \in BOOLEAN :
          /\ failed' = Reported(r, "SetExcludeExistingFilter", ok)
          /\ IF ok
             THEN /\ saFilter' =
                        [saFilter EXCEPT ![r] =
                            [existing |-> cluster, override |-> FALSE]]
                  /\ Goto(r, "FilterMatching")
             ELSE /\ ReturnEarly(r, "SetExcludeExistingFilter", "StateQueryError")
                  /\ UNCHANGED saFilter
    /\ UNCHANGED << inputs, oIDCThumbprint, cfgOIDCThumbprint, providerExists,
                    filteredServiceAccounts, warnings, provisionCalls,
                    delegated >>

\* SetExcludeExistingFilter with its error left unchecked: the filter keeps
\* what it held before the failed query
SetExcludeExistingFilter_IgnoresError(r) ==
    /\ pc[r] = "SetExcludeExistingFilter"
    /\ stateQueries' = [stateQueries EXCEPT ![r] = @ + 1]
    /\ \E ok \in BOOLEAN :
          /\ failed' = Reported(r, "SetExcludeExistingFilter", ok)
          /\ saFilter' =
                IF ok
                THEN [saFilter EXCEPT ![r] =
                         [existing |-> cluster,
                          override |-> overrideExistingServiceAccounts[r]]]
                ELSE saFilter
          /\ Goto(r, "FilterMatching")
    /\ UNCHANGED << inputs, oIDCThumbprint, cfgOIDCThumbprint, providerExists,
                    filteredServiceAccounts, warnings, provisionCalls,
                    delegated >>

\* saFilter.SetExcludeExistingFilter(ctx, stackManager, clientSet,
\*     cfg.IAM.ServiceAccounts, overrideExistingServiceAccounts)
\* reads the existing accounts of the cluster into the filter
SetExcludeExistingFilter(r) ==
    /\ pc[r] = "SetExcludeExistingFilter"
    /\ stateQueries' = [stateQueries EXCEPT ![r] = @ + 1]
    /\ \E ok \in BOOLEAN :
          /\ failed' = Reported(r, "SetExcludeExistingFilter", ok)
          /\ IF ok
             THEN /\ saFilter' =
                        [saFilter EXCEPT ![r] =
                            [existing |-> cluster,
                             override |-> overrideExistingServiceAccounts[r]]]
                  /\ Goto(r, "FilterMatching")
             ELSE /\ ReturnEarly(r, "SetExcludeExistingFilter", "StateQueryError")
                  /\ UNCHANGED saFilter
    /\ UNCHANGED << inputs, oIDCThumbprint, cfgOIDCThumbprint, providerExists,
                    filteredServiceAccounts, warnings, provisionCalls,
                    delegated >>

\* the filter applied to the declared list without its first element
ApplyFilter_SkipsFirst(r) ==
    /\ pc[r] = "FilterMatching"
    /\ filteredServiceAccounts' =
          [filteredServiceAccounts EXCEPT ![r] =
              IF serviceAccounts[r] = << >> THEN << >>
              ELSE FilterMatching(saFilter[r], Tail(serviceAccounts[r]))]
    /\ Goto(r, "SelectMode")
    /\ UNCHANGED << inputs, failed, oIDCThumbprint, cfgOIDCThumbprint, providerExists,
                    saFilter, warnings, stateQueries, provisionCalls,
                    delegated >>

\* filteredServiceAccounts := saFilter.FilterMatching(cfg.IAM.ServiceAccounts)
\* saFilter.LogInfo(cfg.IAM.ServiceAccounts)
ApplyFilter(r) ==
    /\ pc[r] = "FilterMatching"
    /\ filteredServiceAccounts' =
          [filteredServiceAccounts EXCEPT ![r] =
              FilterMatching(saFilter[r], serviceAccounts[r])]
    /\ Goto(r, "SelectMode")
    /\ UNCHANGED << inputs, failed, oIDCThumbprint, cfgOIDCThumbprint, providerExists,
                    saFilter, warnings, stateQueries, provisionCalls,
                    delegated >>

\* the chain with its first two tests in the other order
ModeLog_OverrideFirst(ro, ov) ==
    IF ov
    THEN << WarnOverride >>
    ELSE IF ro THEN << WarnRoleOnly >>
    ELSE << WarnDefault >>

\* the chain with the no-effect warning outside the roleOnly branch
ModeLog_NoEffectOutside(ro, ov) ==
    IF ro
    THEN IF ov THEN << WarnRoleOnly, WarnNoEffect >> ELSE << WarnRoleOnly >>
    ELSE IF ov THEN << WarnOverride, WarnNoEffect >>
    ELSE << WarnDefault >>

\* the warnings of the if / else if / else on roleOnly and
\* overrideExistingServiceAccounts
ModeLog(ro, ov) ==
    IF ro
    THEN IF ov THEN << WarnRoleOnly, WarnNoEffect >> ELSE << WarnRoleOnly >>
    ELSE IF ov THEN << WarnOverride >>
    ELSE << WarnDefault >>

SelectMode(r) ==
    /\ pc[r] = "SelectMode"
    /\ warnings' =
          [warnings EXCEPT
              ![r] = @ \o ModeLog(roleOnly[r],
                                  overrideExistingServiceAccounts[r])]
    /\ Goto(r, "LogObj")
    /\ UNCHANGED << inputs, failed, oIDCThumbprint, cfgOIDCThumbprint, providerExists,
                    saFilter, filteredServiceAccounts, stateQueries,
                    provisionCalls, delegated >>

\* printer.LogObj(logger.Debug, "cfg.json = ...", cfg)
LogObj(r) ==
    /\ pc[r] = "LogObj"
    /\ \E ok \in BOOLEAN :
          /\ failed' = Reported(r, "LogObj", ok)
          /\ IF ok THEN Goto(r, "CreateIAMServiceAccount")
             ELSE ReturnEarly(r, "LogObj", "LogObjError")
    /\ UNCHANGED << inputs, oIDCThumbprint, cfgOIDCThumbprint, providerExists,
                    saFilter, filteredServiceAccounts, warnings, stateQueries,
                    provisionCalls, delegated >>

\* the call handed cfg.IAM.ServiceAccounts, the declared list, instead of
\* filteredServiceAccounts
CreateIAMServiceAccount_PassesDeclared(r) ==
    /\ pc[r] = "CreateIAMServiceAccount"
    /\ provisionCalls' = [provisionCalls EXCEPT ![r] = @ + 1]
    /\ delegated' = [delegated EXCEPT ![r] = serviceAccounts[r]]
    /\ Goto(r, "Return")
    /\ UNCHANGED << inputs, failed, oIDCThumbprint, cfgOIDCThumbprint,
                    providerExists, saFilter, filteredServiceAccounts,
                    warnings, stateQueries >>

\* the call left out when the filtered list is empty: the run returns nil
CreateIAMServiceAccount_SkipsEmpty(r) ==
    /\ pc[r] = "CreateIAMServiceAccount"
    /\ IF filteredServiceAccounts[r] = << >>
       THEN /\ pc' = [pc EXCEPT ![r] = "returned"]
            /\ result' = [result EXCEPT ![r] = "nil"]
            /\ UNCHANGED << provisionCalls, delegated, abortedAt >>
       ELSE /\ provisionCalls' = [provisionCalls EXCEPT ![r] = @ + 1]
            /\ delegated' =
                  [delegated EXCEPT ![r] = filteredServiceAccounts[r]]
            /\ Goto(r, "Return")
    /\ UNCHANGED << inputs, failed, oIDCThumbprint, cfgOIDCThumbprint,
                    providerExists, saFilter, filteredServiceAccounts,
                    warnings, stateQueries >>

\* irsa.New(...).CreateIAMServiceAccount(filteredServiceAccounts, cmd.Plan):
\* the call is made; the batch is with the collaborator until it answers
CreateIAMServiceAccount(r) ==
    /\ pc[r] = "CreateIAMServiceAccount"
    /\ provisionCalls' = [provisionCalls EXCEPT ![r] = @ + 1]
    /\ delegated' = [delegated EXCEPT ![r] = filteredServiceAccounts[r]]
    /\ Goto(r, "Return")
    /\ UNCHANGED << inputs, failed, oIDCThumbprint, cfgOIDCThumbprint,
                    providerExists, saFilter, filteredServiceAccounts,
                    warnings, stateQueries >>

\* return irsa.New(...).CreateIAMServiceAccount(...): the collaborator's
\* answer is the run's result
Return(r) ==
    /\ pc[r] = "Return"
    /\ \E err \in {"nil", "ProvisioningError"} :
          /\ failed' = Reported(r, "CreateIAMServiceAccount", err = "nil")
          /\ pc' = [pc EXCEPT ![r] = "returned"]
          /\ result' = [result EXCEPT ![r] = err]
    /\ UNCHANGED << inputs, oIDCThumbprint, cfgOIDCThumbprint, providerExists,
                    saFilter, filteredServiceAccounts, warnings, stateQueries,
                    provisionCalls, delegated, abortedAt >>

\* the caller's context is cancelled (its deadline passes, or the process is
\* told to stop).  doCreateIAMServiceAccount takes no context from its
\* caller: ctx := context.Background(), which is never cancelled
CancelCaller ==
    /\ ~callerCancelled
    /\ \E r \in Runs : pc[r] \notin {"off", "returned"}
    /\ callerCancelled' = TRUE
    /\ UNCHANGED << pc, oIDCThumbprint, cluster, flagThumbprint,
                    overrideExistingServiceAccounts, roleOnly, serviceAccounts,
                    cfgOIDCThumbprint, providerExists, saFilter,
                    filteredServiceAccounts, warnings, stateQueries,
                    provisionCalls, delegated, abortedAt, result, failed >>

\* ------------------------------------------------------------ specification
\* the state of the invocations before their flags are parsed
Fresh(active) ==
    /\ pc = [r \in Runs |-> IF r \in active THEN "ParseFlags" ELSE "off"]
    /\ oIDCThumbprint = ""
    /\ cfgOIDCThumbprint = [r \in Runs |-> "nil"]
    /\ providerExists = [r \in Runs |-> "unset"]
    /\ saFilter = [r \in Runs |-> NewIAMServiceAccountFilter]
    /\ filteredServiceAccounts = [r \in Runs |-> << >>]
    /\ warnings = [r \in Runs |-> << >>]
    /\ stateQueries = [r \in Runs |-> 0]
    /\ provisionCalls = [r \in Runs |-> 0]
    /\ delegated = [r \in Runs |-> << >>]
    /\ abortedAt = [r \in Runs |-> "none"]
    /\ result = [r \in Runs |-> "none"]
    /\ failed = [r \in Runs |-> {}]
    /\ callerCancelled = FALSE

\* one invocation of the command, any declared accounts, cluster and flags
Init ==
    /\ Fresh({1})
    /\ cluster \in SUBSET Accounts
    /\ \E sas \in SeqsUpTo(Accounts, MaxLen), ov \in BOOLEAN, ro \in BOOLEAN,
          tp \in Thumbprints :
          /\ serviceAccounts = [r \in Runs |-> IF r = 1 THEN sas ELSE << >>]
          /\ overrideExistingServiceAccounts =
                [r \in Runs |-> IF r = 1 THEN ov ELSE FALSE]
          /\ roleOnly = [r \in Runs |-> IF r = 1 THEN ro ELSE FALSE]
          /\ flagThumbprint = [r \in Runs |-> IF r = 1 THEN tp ELSE ""]

\* two invocations in one process that declare the same accounts against the
\* same cluster; their flags are free, but for the first one's thumbprint:
\* it passes --oidc-thumbprint=t1, so that the package-level variable is
\* written (the two invocations are interchangeable, and so are t1 and t2)
InitPair ==
    /\ Fresh(Runs)
    /\ cluster \in SUBSET Accounts
    /\ \E sas \in SeqsUpTo(Accounts, PairMaxLen) :
          serviceAccounts = [r \in Runs |-> sas]
    /\ overrideExistingServiceAccounts \in [Runs -> BOOLEAN]
    /\ roleOnly \in [Runs -> BOOLEAN]
    /\ flagThumbprint \in { f \in [Runs -> Thumbprints] : f[1] = "t1" }

Next ==
    \E r \in Runs :
        \/ ParseFlags(r)
        \/ Load(r)
        \/ SetThumbprint(r)
        \/ NewProviderForExistingCluster(r)
        \/ CanOperate(r)
        \/ NewStdClientSet(r)
        \/ NewOpenIDConnectManager(r)
        \/ CheckProviderExists(r)
        \/ SetExcludeExistingFilter(r)
        \/ ApplyFilter(r)
        \/ SelectMode(r)
        \/ LogObj(r)
        \/ CreateIAMServiceAccount(r)
        \/ Return(r)

Spec == Init /\ [][Next]_vars

SpecPair == InitPair /\ [][Next]_vars

\* one invocation whose caller may cancel at any moment
NextOrCancel == Next \/ CancelCaller

SpecCancel == Init /\ [][NextOrCancel]_vars

\* the calls of run r: the function is sequential code, so a call that can be
\* made is made, and a collaborator that is called answers
Step(r) ==
    \/ ParseFlags(r)
    \/ Load(r)
    \/ SetThumbprint(r)
    \/ NewProviderForExistingCluster(r)
    \/ CanOperate(r)
    \/ NewStdClientSet(r)
    \/ NewOpenIDConnectManager(r)
    \/ CheckProviderExists(r)
    \/ SetExcludeExistingFilter(r)
    \/ ApplyFilter(r)
    \/ SelectMode(r)
    \/ LogObj(r)
    \/ CreateIAMServiceAccount(r)
    \/ Return(r)

\* one invocation, every call of which returns
SpecFair == Spec /\ \A r \in Runs : WF_vars(Step(r))

\* ------------------------------------------------------------- properties
\* the calls of doCreateIAMServiceAccount in program order
Steps ==
    << "ParseFlags", "Load", "SetThumbprint", "NewProviderForExistingCluster",
       "CanOperate", "NewStdClientSet", "NewOpenIDConnectManager",
       "CheckProviderExists", "SetExcludeExistingFilter", "FilterMatching",
       "SelectMode", "LogObj", "CreateIAMServiceAccount", "Return" >>

\* the place of each call in Steps
StepIndex ==
    [s \in { Steps[i] : i \in DOMAIN Steps } |->
        CHOOSE i \in DOMAIN Steps : Steps[i] = s]

Index(s) == StepIndex[s]

\* run r has made call s and gone on past it
Completed(r, s) ==
    CASE pc[r] = "off" -> FALSE
      [] pc[r] = "returned" ->
            abortedAt[r] = "none" \/ Index(abortedAt[r]) > Index(s)
      [] OTHER -> Index(pc[r]) > Index(s)

Returned(r) == pc[r] = "returned"

\* how often warning w is in log
Count(log, w) == Cardinality({ i \in DOMAIN log : log[i] = w })

\* the accounts of sas that are not in the set existing, in the order of sas
NotExisting(sas, existing) ==
    LET Absent(sa) == sa \notin existing IN SelectSeq(sas, Absent)

AccountA == [namespace |-> "default", name |-> "a"]
AccountB == [namespace |-> "kube-system", name |-> "b"]

\* C1: whenever CheckProviderExists answered that the provider is absent, the
\* run has returned an error (the precondition error, logged with its hint,
\* unless the check itself failed) and irsa CreateIAMServiceAccount has not
\* been called.
C1_AbsentProviderAborts ==
    \A r \in Runs :
        providerExists[r] = "false" =>
            /\ Returned(r)
            /\ result[r] \in {"PreconditionError", "CheckProviderError"}
            /\ abortedAt[r] = "CheckProviderExists"
            /\ (result[r] = "PreconditionError")
                  <=> (Count(warnings[r], WarnNoProvider) = 1)
            /\ provisionCalls[r] = 0
            /\ delegated[r] = << >>

C1_Witness ==
    \E r \in Runs :
        /\ providerExists[r] = "false"
        /\ result[r] = "PreconditionError"
        /\ serviceAccounts[r] # << >>
        /\ provisionCalls[r] = 0

\* C2: whenever CheckProviderExists answered that the provider is absent, no
\* state query has been made (SetExcludeExistingFilter was not called) and
\* the filter has neither read the cluster nor been applied.
C2_AbsentProviderNoStateQuery ==
    \A r \in Runs :
        providerExists[r] = "false" =>
            /\ stateQueries[r] = 0
            /\ saFilter[r] = NewIAMServiceAccountFilter
            /\ filteredServiceAccounts[r] = << >>
            /\ ~Completed(r, "CheckProviderExists")

C2_Witness ==
    \E r \in Runs :
        /\ providerExists[r] = "false"
        /\ Returned(r)
        /\ stateQueries[r] = 0
        /\ cluster # {}

\* C3: without the override flag, the filtered list is exactly the declared
\* accounts that do not exist, in declared order; no existing account is
\* handed to irsa CreateIAMServiceAccount, and the list is empty when every
\* declared account exists.
C3_SkipExisting ==
    \A r \in Runs :
        ~overrideExistingServiceAccounts[r] =>
            /\ Completed(r, "FilterMatching") =>
                  /\ filteredServiceAccounts[r] =
                        NotExisting(serviceAccounts[r], saFilter[r].existing)
                  /\ (\A i \in DOMAIN serviceAccounts[r] :
                         serviceAccounts[r][i] \in saFilter[r].existing)
                        => filteredServiceAccounts[r] = << >>
            /\ provisionCalls[r] > 0 =>
                  /\ delegated[r] =
                        NotExisting(serviceAccounts[r], saFilter[r].existing)
                  /\ \A i \in DOMAIN delegated[r] :
                        delegated[r][i] \notin saFilter[r].existing

\* the scenario of the specification: a and b declared, a exists
C3_Witness ==
    \E r \in Runs :
        /\ ~overrideExistingServiceAccounts[r]
        /\ serviceAccounts[r] = << AccountA, AccountB >>
        /\ saFilter[r].existing = { AccountA }
        /\ provisionCalls[r] = 1
        /\ delegated[r] = << AccountB >>

\* C4: with the override flag, the filtered list is the declared list, whatever
\* exists in the cluster.
C4_OverrideKeepsAll ==
    \A r \in Runs :
        (overrideExistingServiceAccounts[r] /\ Completed(r, "FilterMatching"))
            => filteredServiceAccounts[r] = serviceAccounts[r]

C4_Witness ==
    \E r \in Runs :
        /\ overrideExistingServiceAccounts[r]
        /\ Completed(r, "FilterMatching")
        /\ Len(serviceAccounts[r]) = MaxLen
        /\ \A i \in DOMAIN serviceAccounts[r] :
              serviceAccounts[r][i] \in saFilter[r].existing
        /\ filteredServiceAccounts[r] = serviceAccounts[r]

\* C5: when no account exists in the cluster, the filtered list is the
\* declared list, with or without the override flag.
C5_EmptyStateKeepsAll ==
    \A r \in Runs :
        (Completed(r, "FilterMatching") /\ saFilter[r].existing = {})
            => filteredServiceAccounts[r] = serviceAccounts[r]

C5_Witness ==
    \E r \in Runs :
        /\ Completed(r, "FilterMatching")
        /\ saFilter[r].existing = {}
        /\ ~overrideExistingServiceAccounts[r]
        /\ Len(serviceAccounts[r]) = MaxLen
        /\ filteredServiceAccounts[r] = serviceAccounts[r]

ModeOf(w) ==
    CASE w = WarnRoleOnly -> "role-only"
      [] w = WarnOverride -> "override-existing"
      [] w = WarnDefault -> "default"

\* the modes of the chain's warnings that are in the log (with repetition)
ModesLogged(log) == { i \in DOMAIN log : log[i] \in ModeWarnings }

\* C7: once the mode has been selected exactly one of the three mode warnings
\* has been logged, once, and it is the one of the table role-only > override
\* > default on the two flags; before the selection none has been logged.
C7_ExactlyOneMode ==
    \A r \in Runs :
        IF Completed(r, "SelectMode")
        THEN /\ Cardinality(ModesLogged(warnings[r])) = 1
             /\ \A i \in ModesLogged(warnings[r]) :
                   ModeOf(warnings[r][i]) =
                      IF roleOnly[r] THEN "role-only"
                      ELSE IF overrideExistingServiceAccounts[r]
                           THEN "override-existing"
                      ELSE "default"
        ELSE ModesLogged(warnings[r]) = {}

C7_Witness ==
    \E r \in Runs :
        /\ Completed(r, "SelectMode")
        /\ roleOnly[r]
        /\ overrideExistingServiceAccounts[r]
        /\ Count(warnings[r], WarnRoleOnly) = 1
        /\ Count(warnings[r], WarnOverride) = 0

\* C8: with both flags set, a run whose mode has been selected has logged the
\* role-only warning and, exactly once, the warning that the override flag
\* has no effect; with any other flags that warning is never logged.
C8_NoEffectWarningOnce ==
    \A r \in Runs :
        /\ (roleOnly[r] /\ overrideExistingServiceAccounts[r]
               /\ Completed(r, "SelectMode"))
              => /\ Count(warnings[r], WarnNoEffect) = 1
                 /\ Count(warnings[r], WarnRoleOnly) = 1
                 /\ Count(warnings[r], WarnOverride) = 0
                 /\ Count(warnings[r], WarnDefault) = 0
        /\ ~(roleOnly[r] /\ overrideExistingServiceAccounts[r])
              => Count(warnings[r], WarnNoEffect) = 0
        /\ Count(warnings[r], WarnNoEffect) <= 1

C8_Witness ==
    \E r \in Runs :
        /\ roleOnly[r]
        /\ overrideExistingServiceAccounts[r]
        /\ Returned(r)
        /\ result[r] = "nil"
        /\ Count(warnings[r], WarnNoEffect) = 1

\* C9: two role-only runs that declare the same accounts, read the same
\* existing accounts and both reach irsa CreateIAMServiceAccount (every
\* earlier call succeeded in both) hand it the same list, whatever their
\* override flags are.
C9_OverrideNoOpUnderRoleOnly ==
    \A r1, r2 \in Runs :
        ( /\ roleOnly[r1] /\ roleOnly[r2]
          /\ serviceAccounts[r1] = serviceAccounts[r2]
          /\ provisionCalls[r1] = 1 /\ provisionCalls[r2] = 1
          /\ saFilter[r1].existing = saFilter[r2].existing )
        => delegated[r1] = delegated[r2]

\* the calls of steps 1-4: load, provider and operability, OIDC gate, state
\* query
AbortSteps ==
    { "Load", "NewProviderForExistingCluster", "CanOperate",
      "CheckProviderExists", "SetExcludeExistingFilter" }

\* C10: a run that returned early from a call of steps 1-4, or whose
\* provisioning batch failed, returned an error; a run returned nil only
\* after irsa CreateIAMServiceAccount was called and succeeded.
C10_ExitStatus ==
    \A r \in Runs :
        Returned(r) =>
            /\ abortedAt[r] \in AbortSteps => result[r] \in Errors
            /\ result[r] = "nil" =>
                  (provisionCalls[r] = 1 /\ abortedAt[r] = "none")

\* what run r owns: its position, its configuration, its filter, its log, its
\* counters and its result
RunState(r) ==
    << pc[r], cfgOIDCThumbprint[r], providerExists[r], saFilter[r],
       filteredServiceAccounts[r], warnings[r], stateQueries[r],
       provisionCalls[r], delegated[r], abortedAt[r], result[r], failed[r] >>

\* call s comes before call t in doCreateIAMServiceAccount
Before(s, t) == Index(s) < Index(t)

\* C11: the calls are made in program order (load, provider and operability,
\* OIDC gate, state query, filter, mode selection, delegation), each effect
\* at its own call; once a call has reported a failure the run has returned
\* and no later call has begun or begins (no state query, no filtering, no
\* mode warning, no provisioning call after the failure); logging the mode
\* warnings does not end the run.
C11_StrictOrderAbort ==
    /\ [](\A r \in Runs :
            /\ Cardinality(failed[r]) <= 1
            /\ \A s \in failed[r] :
                  /\ Returned(r)
                  /\ s # "CreateIAMServiceAccount" =>
                        (abortedAt[r] = s /\ provisionCalls[r] = 0)
                  /\ Before(s, "SetExcludeExistingFilter") =>
                        (stateQueries[r] = 0
                           /\ saFilter[r] = NewIAMServiceAccountFilter)
                  /\ Before(s, "FilterMatching") =>
                        filteredServiceAccounts[r] = << >>
                  /\ Before(s, "SelectMode") =>
                        ModesLogged(warnings[r]) = {})
    /\ [][\A r \in Runs :
            /\ pc'[r] # pc[r] =>
                  /\ pc[r] \in { Steps[i] : i \in DOMAIN Steps }
                  /\ \/ pc'[r] = "returned"
                     \/ /\ pc[r] # "Return"
                        /\ pc'[r] = Steps[Index(pc[r]) + 1]
            /\ stateQueries'[r] # stateQueries[r] =>
                  pc[r] = "SetExcludeExistingFilter"
            /\ filteredServiceAccounts'[r] # filteredServiceAccounts[r] =>
                  pc[r] = "FilterMatching"
            /\ ModesLogged(warnings'[r]) # ModesLogged(warnings[r]) =>
                  pc[r] = "SelectMode"
            /\ provisionCalls'[r] # provisionCalls[r] =>
                  pc[r] = "CreateIAMServiceAccount"
            /\ pc[r] = "SelectMode" => pc'[r] \in {"SelectMode", "LogObj"}
            /\ pc[r] = "returned" => RunState(r)' = RunState(r)]_vars

C11_Witness ==
    \E r \in Runs :
        /\ failed[r] = { "NewStdClientSet" }
        /\ Returned(r)
        /\ result[r] = "ClientSetError"
        /\ stateQueries[r] = 0
        /\ provisionCalls[r] = 0

\* the state of the run in the state machine of the specification: Done and
\* Failed are the returned run, by the result the caller sees
State(r) ==
    CASE pc[r] = "off" -> "Init"
      [] pc[r] = "returned" -> IF result[r] = "nil" THEN "Done" ELSE "Failed"
      [] pc[r] = "Return" -> "Delegated"
      [] pc[r] \in {"SelectMode", "LogObj", "CreateIAMServiceAccount"} ->
            "Filtered"
      [] pc[r] = "FilterMatching" -> "StateLoaded"
      [] pc[r] = "SetExcludeExistingFilter" -> "PreconditionChecked"
      [] OTHER -> "Init"

\* the transitions of the state machine: one state forward, or to Failed
\* from any state that is not terminal
Transitions ==
    { << "Init", "PreconditionChecked" >>,
      << "PreconditionChecked", "StateLoaded" >>,
      << "StateLoaded", "Filtered" >>,
      << "Filtered", "Delegated" >>,
      << "Delegated", "Done" >> }
    \cup { << s, "Failed" >> :
             s \in { "Init", "PreconditionChecked", "StateLoaded", "Filtered",
                     "Delegated" } }

\* C12: the state of a run changes only along Init -> PreconditionChecked ->
\* StateLoaded -> Filtered -> Delegated -> Done, or to Failed; Done is entered
\* from Delegated alone, and nothing leaves Done or Failed.
C12_ForwardOnly ==
    [][\A r \in Runs :
         State(r)' # State(r) => << State(r), State(r)' >> \in Transitions]_vars

\* C13: every run that was started returns (reaches Done or Failed), given
\* that every call it makes returns.
C13_Terminates ==
    \A r \in Runs : (pc[r] # "off") ~> Returned(r)

C13_Witness ==
    \E r \in Runs :
        /\ Returned(r)
        /\ failed[r] = {}
        /\ Len(delegated[r]) = MaxLen
        /\ callerCancelled = FALSE

\* C14: when the state query (SetExcludeExistingFilter) reported a failure,
\* the run has returned that error from that call: the filter holds nothing
\* read and was not applied, no warning was logged, and irsa
\* CreateIAMServiceAccount was not called.
C14_StateQueryErrorAborts ==
    \A r \in Runs :
        "SetExcludeExistingFilter" \in failed[r] =>
            /\ Returned(r)
            /\ result[r] = "StateQueryError"
            /\ abortedAt[r] = "SetExcludeExistingFilter"
            /\ ~Completed(r, "SetExcludeExistingFilter")
            /\ saFilter[r] = NewIAMServiceAccountFilter
            /\ filteredServiceAccounts[r] = << >>
            /\ warnings[r] = << >>
            /\ provisionCalls[r] = 0
            /\ delegated[r] = << >>

C14_Witness ==
    \E r \in Runs :
        /\ failed[r] = { "SetExcludeExistingFilter" }
        /\ result[r] = "StateQueryError"
        /\ stateQueries[r] = 1
        /\ serviceAccounts[r] # << >>
        /\ cluster # {}

\* C15: irsa CreateIAMServiceAccount is called at most once in a run, with
\* the filtered list as the filter left it, and a run that called it returns
\* the collaborator's answer: its error when it reported one, nil otherwise.
C15_SingleBatchResultAsIs ==
    \A r \in Runs :
        /\ provisionCalls[r] <= 1
        /\ provisionCalls[r] = 0 => delegated[r] = << >>
        /\ provisionCalls[r] = 1 =>
              /\ delegated[r] = filteredServiceAccounts[r]
              /\ Completed(r, "CreateIAMServiceAccount")
              /\ abortedAt[r] = "none"
        /\ (Returned(r) /\ provisionCalls[r] = 1) =>
              result[r] =
                 IF "CreateIAMServiceAccount" \in failed[r]
                 THEN "ProvisioningError" ELSE "nil"

C15_Witness ==
    \E r \in Runs :
        /\ Returned(r)
        /\ provisionCalls[r] = 1
        /\ result[r] = "ProvisioningError"
        /\ delegated[r] # << >>
        /\ delegated[r] # serviceAccounts[r]

\* the thumbprint the configuration of run r carries: cfg.IAM.OIDCThumbprint
\* is nil or points to the package-level variable
EffectiveThumbprint(r) ==
    IF cfgOIDCThumbprint[r] = "nil" THEN "" ELSE oIDCThumbprint

\* C16: what a run passes on depends on its own inputs alone: the thumbprint
\* its configuration carries is the one of its own --oidc-thumbprint, and its
\* filter holds its own override flag, whatever the other invocation does.
C16_NoSharedState ==
    \A r \in Runs :
        /\ Completed(r, "SetThumbprint") =>
              EffectiveThumbprint(r) = flagThumbprint[r]
        /\ Completed(r, "SetExcludeExistingFilter") =>
              saFilter[r].override = overrideExistingServiceAccounts[r]

\* C17: once the caller's cancellation has fired, no run begins the call of
\* irsa CreateIAMServiceAccount.
C17_NoProvisioningAfterCancel ==
    [][callerCancelled => provisionCalls' = provisionCalls]_vars

\* C18: a run in which no call before irsa CreateIAMServiceAccount reported a
\* failure calls it exactly once before it returns, with the filtered list,
\* also when that list is empty.
C18_DelegatesWhenAllSucceed ==
    \A r \in Runs :
        (Returned(r) /\ failed[r] \subseteq { "CreateIAMServiceAccount" })
            => /\ provisionCalls[r] = 1
               /\ delegated[r] = filteredServiceAccounts[r]
               /\ abortedAt[r] = "none"

\* every declared account exists and the override flag is off: the list is
\* empty and the call was made
C18_Witness ==
    \E r \in Runs :
        /\ Returned(r)
        /\ failed[r] = {}
        /\ ~overrideExistingServiceAccounts[r]
        /\ Len(serviceAccounts[r]) = MaxLen
        /\ filteredServiceAccounts[r] = << >>
        /\ provisionCalls[r] = 1
        /\ result[r] = "nil"

====
